---------------------------- MODULE Spec2Model ----------------------------
(***************************************************************************)
(* The Layout navigation engine of opentype.js (layout.js): the            *)
(* Script -> LangSys -> Feature -> Lookup graph held in                    *)
(* font.tables[tableName], its get-or-create accessors, and the sorted     *)
(* searches (searchTag, binSearch, searchRange) with the Coverage and      *)
(* ClassDef queries built on them.                                         *)
(*                                                                         *)
(* JavaScript arrays are 0-based: At(arr, i) reads arr[i].  A JavaScript   *)
(* object reference returned by an accessor is modelled by the position    *)
(* of the object in the table tree.                                        *)
(***************************************************************************)
EXTENDS Integers, Sequences, FiniteSets, TLC

VARIABLES tables, call, ret, arg, res

vars == <<tables, call, ret, arg, res>>

-----------------------------------------------------------------------------
(* Bounds of the model *)

MaxFeatures == 2
MaxLookups == 1
MaxGlyph == 5
MaxClasses == 3
MaxScripts == 3
MaxCarets == 2

-----------------------------------------------------------------------------
(* JavaScript values *)

undefined == "<undefined>"

\* UTF-16 code units of the tags the model uses.
CodeUnits(s) ==
  CASE s = "DFLT" -> <<68, 70, 76, 84>>
    [] s = "Dflt" -> <<68, 102, 108, 116>>
    [] s = "ENG " -> <<69, 78, 71, 32>>
    [] s = "aalt" -> <<97, 97, 108, 116>>
    [] s = "dflt" -> <<100, 102, 108, 116>>
    [] s = "kern" -> <<107, 101, 114, 110>>
    [] s = "latn" -> <<108, 97, 116, 110>>
    [] s = "liga" -> <<108, 105, 103, 97>>

RECURSIVE SeqLess(_, _)
SeqLess(a, b) ==
  IF b = <<>> THEN FALSE
  ELSE IF a = <<>> THEN TRUE
  ELSE IF Head(a) # Head(b) THEN Head(a) < Head(b)
  ELSE SeqLess(Tail(a), Tail(b))

\* a < b on JavaScript strings: lexicographic on code units.
StrLess(a, b) == SeqLess(CodeUnits(a), CodeUnits(b))

\* a >= b on JavaScript strings.
StrGeq(a, b) == ~StrLess(a, b)

At(arr, i) == arr[i + 1]

\* arr.push(x)
Push(arr, x) == Append(arr, x)

SpliceAtEnd(arr, start, x) == Append(arr, x)

\* arr.splice(start, 0, x) for start >= 0 (start is clamped to the length).
Splice(arr, start, x) ==
  LET s == IF start > Len(arr) THEN Len(arr) ELSE start
  IN SubSeq(arr, 1, s) \o <<x>> \o SubSeq(arr, s + 1, Len(arr))

\* (a + b) >>> 1 for the non-negative sums of two array indices.
ushr1(x) == x \div 2

-----------------------------------------------------------------------------
(* The sorted searches *)

RECURSIVE searchTagLoop(_, _, _, _)
searchTagLoop(arr, tag, iMin, iMax) ==
  IF iMin <= iMax
  THEN LET iMid == ushr1(iMin + iMax)
           val == At(arr, iMid).tag
       IN IF val = tag THEN iMid
          ELSE IF StrLess(val, tag) THEN searchTagLoop(arr, tag, iMid + 1, iMax)
          ELSE searchTagLoop(arr, tag, iMin, iMid - 1)
  ELSE -iMin - 1

searchTagFromOne(arr, tag) == searchTagLoop(arr, tag, 1, Len(arr) - 1)

searchTag(arr, tag) == searchTagLoop(arr, tag, 0, Len(arr) - 1)

RECURSIVE binSearchLoop(_, _, _, _)
binSearchLoop(arr, value, iMin, iMax) ==
  IF iMin <= iMax
  THEN LET iMid == ushr1(iMin + iMax)
           val == At(arr, iMid)
       IN IF val = value THEN iMid
          ELSE IF val < value THEN binSearchLoop(arr, value, iMid + 1, iMax)
          ELSE binSearchLoop(arr, value, iMin, iMid - 1)
  ELSE -iMin - 1

binSearch(arr, value) == binSearchLoop(arr, value, 0, Len(arr) - 1)

\* What searchRange returns: a range record, the number 0, or undefined.
NoRange == [start |-> 0, end |-> 0]
FoundRange(range) == [kind |-> "range", range |-> range]
ZeroResult == [kind |-> "zero", range |-> NoRange]
UndefinedResult == [kind |-> "undefined", range |-> NoRange]

\* The truth value JavaScript gives a searchRange result.
Truthy(r) == r.kind = "range"

\* The binary search of searchRange: <<TRUE, range>> on an exact match of
\* start, <<FALSE, iMin>> when the loop ends without one.
RECURSIVE searchRangeLoop(_, _, _, _)
searchRangeLoop(ranges, value, iMin, iMax) ==
  IF iMin <= iMax
  THEN LET iMid == ushr1(iMin + iMax)
           range == At(ranges, iMid)
           start == range.start
       IN IF start = value THEN <<TRUE, range>>
          ELSE IF start < value THEN searchRangeLoop(ranges, value, iMid + 1, iMax)
          ELSE searchRangeLoop(ranges, value, iMin, iMid - 1)
  ELSE <<FALSE, iMin>>

searchRangeNoEnd(ranges, value) ==
  LET l == searchRangeLoop(ranges, value, 0, Len(ranges) - 1)
  IN IF l[1] THEN FoundRange(l[2])
     ELSE IF l[2] > 0 THEN FoundRange(At(ranges, l[2] - 1)) ELSE UndefinedResult

searchRange(ranges, value) ==
  LET l == searchRangeLoop(ranges, value, 0, Len(ranges) - 1)
  IN IF l[1] THEN FoundRange(l[2])
     ELSE LET iMin == l[2]
          IN IF iMin > 0
             THEN LET range == At(ranges, iMin - 1)
                  IN IF value > range.end THEN ZeroResult ELSE FoundRange(range)
             ELSE UndefinedResult

-----------------------------------------------------------------------------
(* The ClassDef and Coverage queries.  A number returned is Num(n); a       *)
(* switch that matches no case returns undefined.                           *)

Num(n) == [kind |-> "number", val |-> n]

Undef == [kind |-> "undefined", val |-> 0]

getGlyphClassAfterStart(classDefTable, glyphIndex) ==
  IF classDefTable.format = 1
  THEN IF classDefTable.startGlyph < glyphIndex
          /\ glyphIndex < classDefTable.startGlyph + Len(classDefTable.classes)
       THEN Num(At(classDefTable.classes, glyphIndex - classDefTable.startGlyph))
       ELSE Num(0)
  ELSE IF classDefTable.format = 2
  THEN IF Truthy(searchRange(classDefTable.ranges, glyphIndex))
       THEN Num(searchRange(classDefTable.ranges, glyphIndex).range.classId)
       ELSE Num(0)
  ELSE Undef

getGlyphClass(classDefTable, glyphIndex) ==
  IF classDefTable.format = 1
  THEN IF classDefTable.startGlyph <= glyphIndex
          /\ glyphIndex < classDefTable.startGlyph + Len(classDefTable.classes)
       THEN Num(At(classDefTable.classes, glyphIndex - classDefTable.startGlyph))
       ELSE Num(0)
  ELSE IF classDefTable.format = 2
  THEN LET range == searchRange(classDefTable.ranges, glyphIndex)
       IN IF Truthy(range) THEN Num(range.range.classId) ELSE Num(0)
  ELSE Undef

getCoverageIndex(coverageTable, glyphIndex) ==
  IF coverageTable.format = 1
  THEN LET index == binSearch(coverageTable.glyphs, glyphIndex)
       IN IF index >= 0 THEN Num(index) ELSE Num(-1)
  ELSE IF coverageTable.format = 2
  THEN LET range == searchRange(coverageTable.ranges, glyphIndex)
       IN IF Truthy(range)
          THEN Num(range.range.index + glyphIndex - range.range.start)
          ELSE Num(-1)
  ELSE Undef

\* The glyphs start..end of one range, in order.
RECURSIVE expandRangeExclusive(_, _)
expandRangeExclusive(j, end) ==
  IF j < end THEN <<j>> \o expandRangeExclusive(j + 1, end) ELSE <<>>

RECURSIVE expandRange(_, _)
expandRange(j, end) ==
  IF j <= end THEN <<j>> \o expandRange(j + 1, end) ELSE <<>>

RECURSIVE expandRanges(_, _)
expandRanges(ranges, i) ==
  IF i < Len(ranges)
  THEN expandRange(At(ranges, i).start, At(ranges, i).end) \o expandRanges(ranges, i + 1)
  ELSE <<>>

expandCoverage(coverageTable) ==
  IF coverageTable.format = 1 THEN coverageTable.glyphs
  ELSE expandRanges(coverageTable.ranges, 0)

-----------------------------------------------------------------------------
(* The layout table and its accessors.  Every accessor is an operator from *)
(* the table before the call to the table after it and the value returned. *)

NoTable == [present |-> FALSE, scripts |-> <<>>, features |-> <<>>, lookups |-> <<>>]

createDefaultTable == [present |-> TRUE, scripts |-> <<>>, features |-> <<>>, lookups |-> <<>>]

NewLangSys == [reserved |-> 0, reqFeatureIndex |-> 65535, featureIndexes |-> <<>>]

NewScript == [defaultLangSys |-> NewLangSys, langSysRecords |-> <<>>]

getTableAlways(t, create) == IF ~t.present THEN createDefaultTable ELSE t

\* getTable(create): the table after the call; the value returned is that
\* table when it is present and undefined otherwise.
getTable(t, create) ==
  IF ~t.present /\ create THEN createDefaultTable ELSE t

\* getScriptTable after its call of getTable: ret.val is the position of the
\* script record whose script subtree is returned.
scriptTableIn(layout, script, create) ==
  IF layout.present
  THEN LET pos == searchTag(layout.scripts, script)
       IN IF pos >= 0
          THEN [tables |-> layout, ret |-> [kind |-> "script", val |-> pos]]
          ELSE IF create
          THEN [tables |-> [layout EXCEPT !.scripts =
                              Splice(@, -1 - pos, [tag |-> script, script |-> NewScript])],
                ret |-> [kind |-> "script", val |-> -1 - pos]]
          ELSE [tables |-> layout, ret |-> Undef]
  ELSE [tables |-> layout, ret |-> Undef]

getScriptTable(t, scriptArg, create) ==
  scriptTableIn(getTable(t, create), IF scriptArg = undefined THEN "DFLT" ELSE scriptArg,
                create)

isDefaultLanguageLowerOnly(language) == language = "dflt"

\* The languages that name the default language system.
isDefaultLanguage(language) == language = "dflt" \/ language = "DFLT"

\* getLangSysTable after its call of getScriptTable (st): ret.val is <<s, l>>,
\* s the position of the script record and l the position of the
\* langSysRecord, or -1 for defaultLangSys.
langSysTableIn(st, language, create) ==
  IF st.ret.kind = "script"
  THEN LET s == st.ret.val
           langSysRecords == At(st.tables.scripts, s).script.langSysRecords
       IN IF isDefaultLanguage(language)
          THEN [tables |-> st.tables, ret |-> [kind |-> "langSys", val |-> <<s, -1>>]]
          ELSE LET pos == searchTag(langSysRecords, language)
               IN IF pos >= 0
                  THEN [tables |-> st.tables,
                        ret |-> [kind |-> "langSys", val |-> <<s, pos>>]]
                  ELSE IF create
                  THEN [tables |-> [st.tables EXCEPT
                                      !.scripts[s + 1].script.langSysRecords =
                                        Splice(@, -1 - pos,
                                               [tag |-> language, langSys |-> NewLangSys])],
                        ret |-> [kind |-> "langSys", val |-> <<s, -1 - pos>>]]
                  ELSE [tables |-> st.tables, ret |-> Undef]
  ELSE [tables |-> st.tables, ret |-> Undef]

getLangSysTable(t, scriptArg, languageArg, create) ==
  langSysTableIn(getScriptTable(t, scriptArg, create),
                 IF languageArg = undefined THEN "dflt" ELSE languageArg, create)

\* The LangSys object a getLangSysTable reference points to.
LangSysAt(t, ref) ==
  IF ref[2] = -1 THEN At(t.scripts, ref[1]).script.defaultLangSys
  ELSE At(At(t.scripts, ref[1]).script.langSysRecords, ref[2]).langSys

PushFeatureIndexNowhere(t, ref, index) == t

\* t with index pushed onto featureIndexes of the referenced LangSys.
PushFeatureIndex(t, ref, index) ==
  IF ref[2] = -1
  THEN [t EXCEPT !.scripts[ref[1] + 1].script.defaultLangSys.featureIndexes = Push(@, index)]
  ELSE [t EXCEPT !.scripts[ref[1] + 1].script.langSysRecords[ref[2] + 1].langSys.featureIndexes
                     = Push(@, index)]

\* The linear scan of featIndexes: position in allFeatures of the first
\* referenced record with the tag, or -1.
RECURSIVE scanFeatures(_, _, _, _)
scanFeatures(allFeatures, featIndexes, feature, i) ==
  IF i < Len(featIndexes)
  THEN IF At(allFeatures, At(featIndexes, i)).tag = feature
       THEN At(featIndexes, i)
       ELSE scanFeatures(allFeatures, featIndexes, feature, i + 1)
  ELSE -1

\* check.assert(predicate, message) throws when the predicate is false.
assertFails(predicate) == ~predicate

createFeatureUnchecked(t, ref, feature) ==
  [tables |-> PushFeatureIndex(
                [t EXCEPT !.features =
                   Push(@, [tag |-> feature,
                            feature |-> [params |-> 0, lookupListIndexes |-> <<>>]])],
                ref, Len(t.features)),
   ret |-> [kind |-> "feature", val |-> Len(t.features)]]

createFeaturePushFirst(t, ref, feature) ==
  LET index == Len(t.features)
      pushed == [t EXCEPT !.features =
                   Push(@, [tag |-> feature,
                            feature |-> [params |-> 0, lookupListIndexes |-> <<>>]])]
  IN IF assertFails(index = 0 \/ StrGeq(feature, At(t.features, index - 1).tag))
     THEN [tables |-> pushed, ret |-> [kind |-> "error", val |-> 0]]
     ELSE [tables |-> PushFeatureIndex(pushed, ref, index),
           ret |-> [kind |-> "feature", val |-> index]]

\* The create branch of getFeatureTable on table t for the LangSys ref.
createFeature(t, ref, feature) ==
  LET index == Len(t.features)
  IN IF assertFails(index = 0 \/ StrGeq(feature, At(t.features, index - 1).tag))
     THEN [tables |-> t, ret |-> [kind |-> "error", val |-> 0]]
     ELSE [tables |-> PushFeatureIndex(
                        [t EXCEPT !.features =
                           Push(@, [tag |-> feature,
                                    feature |-> [params |-> 0, lookupListIndexes |-> <<>>]])],
                        ref, index),
           ret |-> [kind |-> "feature", val |-> index]]

featureTableInAssertFirst(ls, feature, create) ==
  IF ls.ret.kind = "langSys"
  THEN LET found == scanFeatures(ls.tables.features,
                                 LangSysAt(ls.tables, ls.ret.val).featureIndexes, feature, 0)
           index == Len(ls.tables.features)
       IN IF found >= 0
          THEN [tables |-> ls.tables, ret |-> [kind |-> "feature", val |-> found]]
          ELSE IF assertFails(index = 0
                              \/ StrGeq(feature, At(ls.tables.features, index - 1).tag))
          THEN [tables |-> ls.tables, ret |-> [kind |-> "error", val |-> 0]]
          ELSE IF create THEN createFeature(ls.tables, ls.ret.val, feature)
          ELSE [tables |-> ls.tables, ret |-> Undef]
  ELSE [tables |-> ls.tables, ret |-> Undef]

\* getFeatureTable after its call of getLangSysTable (ls): ret.val is the
\* position of the feature record in the features array; kind "error" is
\* the thrown assertion.
featureTableIn(ls, feature, create) ==
  IF ls.ret.kind = "langSys"
  THEN LET found == scanFeatures(ls.tables.features,
                                 LangSysAt(ls.tables, ls.ret.val).featureIndexes, feature, 0)
       IN IF found >= 0
          THEN [tables |-> ls.tables, ret |-> [kind |-> "feature", val |-> found]]
          ELSE IF create THEN createFeature(ls.tables, ls.ret.val, feature)
          ELSE [tables |-> ls.tables, ret |-> Undef]
  ELSE [tables |-> ls.tables, ret |-> Undef]

getFeatureTable(t, scriptArg, languageArg, feature, create) ==
  featureTableIn(getLangSysTable(t, scriptArg, languageArg, create), feature, create)

RECURSIVE collectLookupsAnyType(_, _, _, _)
collectLookupsAnyType(allLookups, lookupListIndexes, lookupType, i) ==
  IF i < Len(lookupListIndexes)
  THEN <<At(lookupListIndexes, i)>>
       \o collectLookupsAnyType(allLookups, lookupListIndexes, lookupType, i + 1)
  ELSE <<>>

\* The linear scan of lookupListIndexes: the positions in allLookups of the
\* referenced lookups of the requested type, in lookupListIndexes order.
RECURSIVE collectLookups(_, _, _, _)
collectLookups(allLookups, lookupListIndexes, lookupType, i) ==
  IF i < Len(lookupListIndexes)
  THEN (IF At(allLookups, At(lookupListIndexes, i)).lookupType = lookupType
        THEN <<At(lookupListIndexes, i)>> ELSE <<>>)
       \o collectLookups(allLookups, lookupListIndexes, lookupType, i + 1)
  ELSE <<>>

createLookupIndexAfterPush(t, f, lookupType) ==
  LET index == Len(t.lookups) + 1
  IN [tables |-> [t EXCEPT
                    !.lookups = Push(@, [lookupType |-> lookupType, lookupFlag |-> 0,
                                         subtables |-> <<>>,
                                         markFilteringSet |-> undefined]),
                    !.features[f + 1].feature.lookupListIndexes = Push(@, index)],
      ret |-> [kind |-> "lookups", val |-> <<index - 1>>]]

\* The create branch of getLookupTables on table t for the feature at f.
createLookup(t, f, lookupType) ==
  LET index == Len(t.lookups)
  IN [tables |-> [t EXCEPT
                    !.lookups = Push(@, [lookupType |-> lookupType, lookupFlag |-> 0,
                                         subtables |-> <<>>,
                                         markFilteringSet |-> undefined]),
                    !.features[f + 1].feature.lookupListIndexes = Push(@, index)],
      ret |-> [kind |-> "lookups", val |-> <<index>>]]

\* getLookupTables after its call of getFeatureTable (ft): ret.val is the
\* list of the positions in the lookups array of the lookups returned.  An
\* assertion thrown by getFeatureTable passes through.
lookupTablesIn(ft, lookupType, create) ==
  IF ft.ret.kind = "error" THEN ft
  ELSE IF ft.ret.kind = "feature"
  THEN LET tabs == collectLookups(
                     ft.tables.lookups,
                     At(ft.tables.features, ft.ret.val).feature.lookupListIndexes,
                     lookupType, 0)
       IN IF Len(tabs) = 0 /\ create
          THEN createLookup(ft.tables, ft.ret.val, lookupType)
          ELSE [tables |-> ft.tables, ret |-> [kind |-> "lookups", val |-> tabs]]
  ELSE [tables |-> ft.tables, ret |-> [kind |-> "lookups", val |-> <<>>]]

getLookupTables(t, scriptArg, languageArg, feature, lookupType, create) ==
  lookupTablesIn(getFeatureTable(t, scriptArg, languageArg, feature, create),
                 lookupType, create)

\* getScriptNames
getScriptNames(t) ==
  LET layout == getTable(t, FALSE)
  IN IF ~layout.present THEN <<>>
     ELSE [i \in 1..Len(layout.scripts) |-> layout.scripts[i].tag]

RECURSIVE defaultScriptLoopFirstSeen(_, _, _)
defaultScriptLoopFirstSeen(scripts, i, hasLatn) ==
  IF i < Len(scripts)
  THEN LET name == At(scripts, i).tag
       IN IF name = "DFLT" \/ name = "latn" THEN name
          ELSE defaultScriptLoopFirstSeen(scripts, i + 1, hasLatn)
  ELSE undefined

\* getDefaultScriptName: the loop from position i with the hasLatn flag.
RECURSIVE defaultScriptLoop(_, _, _)
defaultScriptLoop(scripts, i, hasLatn) ==
  IF i < Len(scripts)
  THEN LET name == At(scripts, i).tag
       IN IF name = "DFLT" THEN name
          ELSE defaultScriptLoop(scripts, i + 1, hasLatn \/ name = "latn")
  ELSE IF hasLatn THEN "latn" ELSE undefined

getDefaultScriptName(t) ==
  LET layout == getTable(t, FALSE)
  IN IF ~layout.present THEN undefined
     ELSE defaultScriptLoop(layout.scripts, 0, FALSE)

-----------------------------------------------------------------------------
(* The GDEF table parser.  data is the byte buffer, offset the start of the *)
(* structure a Parser object reads and rel its relativeOffset.  A parse    *)
(* step gives the value read and the relativeOffset after it, or the error *)
(* thrown and the position of the cursor when it was thrown.               *)

Ok(val, rel) == [ok |-> TRUE, val |-> val, rel |-> rel]

Fail(message, pos) == [ok |-> FALSE, val |-> message, rel |-> pos]

\* What parsePointer returns: undefined for a null offset, else the
\* structure parsed.
Absent == [present |-> FALSE]

Present(v) == [present |-> TRUE, value |-> v]

getUShort(data, pos) == data[pos + 1] * 256 + data[pos + 2]

parseUShort(data, offset, rel) ==
  IF offset + rel + 2 <= Len(data)
  THEN Ok(getUShort(data, offset + rel), rel + 2)
  ELSE Fail("RangeError", offset + rel)

parseShort(data, offset, rel) ==
  IF offset + rel + 2 <= Len(data)
  THEN Ok(IF getUShort(data, offset + rel) >= 32768
          THEN getUShort(data, offset + rel) - 65536
          ELSE getUShort(data, offset + rel), rel + 2)
  ELSE Fail("RangeError", offset + rel)

\* parseVersion(minorBase): major + minor / minorBase / 10, counted here in
\* tenths (1.2 is 12).
parseVersion(data, offset, rel, minorBase) ==
  IF offset + rel + 4 <= Len(data)
  THEN Ok(getUShort(data, offset + rel) * 10
            + getUShort(data, offset + rel + 2) \div minorBase, rel + 4)
  ELSE Fail("RangeError", offset + rel)

\* check.argument(predicate, message) throws when the predicate is false.
argumentFails(predicate) == ~predicate

RECURSIVE parseStruct(_, _, _, _)

pointed(r, rel) == IF r.ok THEN Ok(Present(r.val), rel) ELSE r

pointerAfter(o, description, data, offset) ==
  IF ~o.ok THEN o
  ELSE IF o.val > 0 THEN pointed(parseStruct(description, data, offset + o.val, 0), o.rel)
  ELSE Ok(Absent, o.rel)

\* parsePointer(description): a 16-bit offset, then the structure at offset
\* + that value read by a new Parser, or undefined for the offset 0.
parsePointer(description, data, offset, rel) ==
  pointerAfter(parseUShort(data, offset, rel), description, data, offset)

RECURSIVE parseItems(_, _, _, _, _, _)

itemsAfter(r, itemCallback, data, offset, count, list) ==
  IF r.ok THEN parseItems(itemCallback, data, offset, r.rel, count - 1, Append(list, r.val))
  ELSE r

parseItems(itemCallback, data, offset, rel, count, list) ==
  IF count = 0 THEN Ok(list, rel)
  ELSE itemsAfter(parseStruct(itemCallback, data, offset, rel),
                  itemCallback, data, offset, count, list)

listAfter(c, itemCallback, data, offset) ==
  IF c.ok THEN parseItems(itemCallback, data, offset, c.rel, c.val, <<>>) ELSE c

\* parseList(itemCallback): a 16-bit count, then that many items.
parseList(itemCallback, data, offset, rel) ==
  listAfter(parseUShort(data, offset, rel), itemCallback, data, offset)

RECURSIVE parseFields(_, _, _, _, _)

fieldsAfter(r, fields, data, offset, object) ==
  IF r.ok
  THEN parseFields(Tail(fields), data, offset, r.rel, (Head(fields)[1] :> r.val) @@ object)
  ELSE r

\* The properties of an object literal, read in the order they are written:
\* fields holds the name and the description of each.
parseFields(fields, data, offset, rel, object) ==
  IF Len(fields) = 0 THEN Ok(object, rel)
  ELSE fieldsAfter(parseStruct(Head(fields)[2], data, offset, rel),
                   fields, data, offset, object)

\* An object with no property yet.
EmptyObject == <<>>

coverageAfter(format, data, offset) ==
  IF ~format.ok THEN format
  ELSE IF format.val = 1
  THEN parseFields(<< <<"glyphs", <<"list", "uShort">> >> >>,
                   data, offset, format.rel, [format |-> 1])
  ELSE IF format.val = 2
  THEN parseFields(<< <<"ranges", <<"list", "rangeRecord">> >> >>,
                   data, offset, format.rel, [format |-> 2])
  ELSE Fail("Coverage format must be 1 or 2.", offset)

\* Parser.coverage
parseCoverage(data, offset, rel) ==
  coverageAfter(parseUShort(data, offset, rel), data, offset)

classDefAfter(format, data, offset) ==
  IF ~format.ok THEN format
  ELSE IF format.val = 1
  THEN parseFields(<< <<"startGlyph", <<"uShort">> >>, <<"classes", <<"list", "uShort">> >> >>,
                   data, offset, format.rel, [format |-> 1])
  ELSE IF format.val = 2
  THEN parseFields(<< <<"ranges", <<"list", "classRangeRecord">> >> >>,
                   data, offset, format.rel, [format |-> 2])
  ELSE Fail("ClassDef format must be 1 or 2.", offset)

\* Parser.classDef
parseClassDef(data, offset, rel) ==
  classDefAfter(parseUShort(data, offset, rel), data, offset)

attachList(data, offset, rel) ==
  parseFields(<< <<"coverage", <<"pointer", "coverage">> >>,
                 <<"attachPoints", <<"list", "pointer", "list", "uShort">> >> >>,
              data, offset, rel, EmptyObject)

caretRecord(name, value) ==
  IF value.ok THEN Ok(name :> value.val, value.rel) ELSE value

caretValueUnchecked(format, data, offset) ==
  IF ~format.ok THEN format
  ELSE IF format.val = 1
  THEN caretRecord("coordinate", parseShort(data, offset, format.rel))
  ELSE IF format.val = 2
  THEN caretRecord("pointindex", parseShort(data, offset, format.rel))
  ELSE IF format.val = 3
  THEN caretRecord("coordinate", parseShort(data, offset, format.rel))
  ELSE Ok(Absent, format.rel)

caretValueAfter(format, data, offset) ==
  IF ~format.ok THEN format
  ELSE IF argumentFails(format.val = 1 \/ format.val = 2 \/ format.val = 3)
  THEN Fail("Unsupported CaretValue table version.", offset + format.rel)
  ELSE IF format.val = 1
  THEN caretRecord("coordinate", parseShort(data, offset, format.rel))
  ELSE IF format.val = 2
  THEN caretRecord("pointindex", parseShort(data, offset, format.rel))
  ELSE caretRecord("coordinate", parseShort(data, offset, format.rel))

caretValue(data, offset, rel) ==
  caretValueAfter(parseUShort(data, offset, rel), data, offset)

ligGlyph(data, offset, rel) ==
  parseList(<<"pointer", "caretValue">>, data, offset, rel)

ligCaretList(data, offset, rel) ==
  parseFields(<< <<"coverage", <<"pointer", "coverage">> >>,
                 <<"ligGlyphs", <<"list", "pointer", "ligGlyph">> >> >>,
              data, offset, rel, EmptyObject)

markGlyphSetsAfter(version, data, offset) ==
  IF version.ok THEN parseList(<<"pointer", "coverage">>, data, offset, version.rel)
  ELSE version

markGlyphSets(data, offset, rel) ==
  markGlyphSetsAfter(parseUShort(data, offset, rel), data, offset)

\* parseStruct(description): the structure the description names, read at
\* the cursor.
parseStruct(description, data, offset, rel) ==
  CASE Head(description) = "pointer" -> parsePointer(Tail(description), data, offset, rel)
    [] Head(description) = "list" -> parseList(Tail(description), data, offset, rel)
    [] Head(description) = "uShort" -> parseUShort(data, offset, rel)
    [] Head(description) = "rangeRecord" ->
         parseFields(<< <<"start", <<"uShort">> >>, <<"end", <<"uShort">> >>,
                        <<"index", <<"uShort">> >> >>, data, offset, rel, EmptyObject)
    [] Head(description) = "classRangeRecord" ->
         parseFields(<< <<"start", <<"uShort">> >>, <<"end", <<"uShort">> >>,
                        <<"classId", <<"uShort">> >> >>, data, offset, rel, EmptyObject)
    [] Head(description) = "coverage" -> parseCoverage(data, offset, rel)
    [] Head(description) = "classDef" -> parseClassDef(data, offset, rel)
    [] Head(description) = "attachList" -> attachList(data, offset, rel)
    [] Head(description) = "caretValue" -> caretValue(data, offset, rel)
    [] Head(description) = "ligGlyph" -> ligGlyph(data, offset, rel)
    [] Head(description) = "ligCaretList" -> ligCaretList(data, offset, rel)
    [] Head(description) = "markGlyphSets" -> markGlyphSets(data, offset, rel)

gdefAfterPointersFrom13(gdef, tableVersion, data, start) ==
  IF ~gdef.ok THEN gdef
  ELSE IF tableVersion >= 13
  THEN parseFields(<< <<"markGlyphSets", <<"pointer", "markGlyphSets">> >> >>,
                   data, start, gdef.rel, gdef.val)
  ELSE gdef

gdefAfterPointers(gdef, tableVersion, data, start) ==
  IF ~gdef.ok THEN gdef
  ELSE IF tableVersion >= 12
  THEN parseFields(<< <<"markGlyphSets", <<"pointer", "markGlyphSets">> >> >>,
                   data, start, gdef.rel, gdef.val)
  ELSE gdef

gdefAfterVersion(tableVersion, data, start) ==
  IF ~tableVersion.ok THEN tableVersion
  ELSE IF argumentFails(tableVersion.val = 10 \/ tableVersion.val = 12
                        \/ tableVersion.val = 13)
  THEN Fail("Unsupported GDEF table version.", start + tableVersion.rel)
  ELSE gdefAfterPointers(
         parseFields(<< <<"classDef", <<"pointer", "classDef">> >>,
                        <<"attachList", <<"pointer", "attachList">> >>,
                        <<"ligCaretList", <<"pointer", "ligCaretList">> >>,
                        <<"markAttachClassDef", <<"pointer", "classDef">> >> >>,
                     data, start, tableVersion.rel, [version |-> tableVersion.val]),
         tableVersion.val, data, start)

\* parseGDEFTable(data, start): the gdef object and the cursor after the
\* header, or the error thrown.
parseGDEFTable(data, start) == gdefAfterVersion(parseVersion(data, start, 0, 1), data, start)

-----------------------------------------------------------------------------
(* The calls a client makes on a Layout object.  A call step runs one whole *)
(* accessor on the table: call and ret hold the arguments and the outcome   *)
(* until the caller has taken the result (Return).                          *)

ScriptArgs == {"DFLT", "latn", undefined}
LangSysArgs ==
  {<<"DFLT", "dflt">>, <<"DFLT", "DFLT">>, <<"DFLT", "Dflt">>, <<"DFLT", "ENG ">>,
   <<"latn", "dflt">>, <<undefined, undefined>>}
FeatureArgs == {"aalt", "liga"}
LookupTypes == {1, 2}

NoCall == [op |-> "none", script |-> undefined, language |-> undefined,
           feature |-> undefined, lookupType |-> 0, create |-> FALSE]

NoArg == [fn |-> "none"]

NoRes == [kind |-> "none", val |-> 0]

\* A table as the parser delivers it: index lists in arbitrary order.
ParsedTable ==
  [present |-> TRUE,
   scripts |-> <<[tag |-> "DFLT",
                  script |-> [defaultLangSys |-> [reserved |-> 0, reqFeatureIndex |-> 65535,
                                                  featureIndexes |-> <<1, 0>>],
                              langSysRecords |-> <<>>]]>>,
   features |-> <<[tag |-> "aalt", feature |-> [params |-> 0, lookupListIndexes |-> <<>>]],
                  [tag |-> "liga", feature |-> [params |-> 0, lookupListIndexes |-> <<1, 0>>]]>>,
   lookups |-> <<[lookupType |-> 1, lookupFlag |-> 0, subtables |-> <<"s0">>,
                  markFilteringSet |-> undefined],
                 [lookupType |-> 1, lookupFlag |-> 0, subtables |-> <<"s1">>,
                  markFilteringSet |-> undefined]>>]

\* The features and lookups arrays grow without limit in the program; the
\* model stops their growth at MaxFeatures and MaxLookups.
WithinBounds(t, u) ==
  /\ Len(u.features) > Len(t.features) => Len(u.features) <= MaxFeatures
  /\ Len(u.lookups) > Len(t.lookups) => Len(u.lookups) <= MaxLookups

-----------------------------------------------------------------------------
(* Inputs of the searches and of the ClassDef and Coverage queries *)

Min(S) == CHOOSE x \in S : \A y \in S : x <= y

\* The ascending list of a set of numbers.
RECURSIVE SortedSeq(_)
SortedSeq(S) == IF S = {} THEN <<>> ELSE <<Min(S)>> \o SortedSeq(S \ {Min(S)})

MinTag(S) == CHOOSE x \in S : \A y \in S : x = y \/ StrLess(x, y)

\* The records of a set of tags, ascending by tag.
RECURSIVE TagRecords(_)
TagRecords(S) ==
  IF S = {} THEN <<>> ELSE <<[tag |-> MinTag(S)]>> \o TagRecords(S \ {MinTag(S)})

Tags == {"DFLT", "Dflt", "ENG ", "aalt", "dflt", "kern", "latn", "liga"}

Glyphs == 0..MaxGlyph

ClassIds == 0..2

\* The position of glyph g in the ascending list of S.
PositionIn(S, g) == Cardinality({x \in S : x < g})

\* The ranges that store the glyph set S: a range starts at every glyph of S
\* whose predecessor is not in S, and at every glyph of cuts.
RangeStarts(S, cuts) == {g \in S : g - 1 \notin S \/ g \in cuts}

RangeEnd(S, cuts, start) ==
  CHOOSE e \in S :
    /\ e >= start
    /\ \A x \in start..e : x \in S
    /\ \A x \in (start + 1)..e : x \notin RangeStarts(S, cuts)
    /\ (e + 1 \notin S \/ e + 1 \in RangeStarts(S, cuts))

\* A format-1 and a format-2 Coverage table of the glyph set S.
CoverageFormat1(S) == [format |-> 1, glyphs |-> SortedSeq(S)]

CoverageFormat2(S, cuts) ==
  LET starts == SortedSeq(RangeStarts(S, cuts))
  IN [format |-> 2,
      ranges |-> [i \in 1..Len(starts) |->
                    [start |-> starts[i], end |-> RangeEnd(S, cuts, starts[i]),
                     index |-> PositionIn(S, starts[i])]]]

\* A format-2 ClassDef table over the glyph set S, the classes of its
\* ranges counting up from base.
ClassDefFormat2(S, cuts, base) ==
  LET starts == SortedSeq(RangeStarts(S, cuts))
  IN [format |-> 2,
      ranges |-> [i \in 1..Len(starts) |->
                    [start |-> starts[i], end |-> RangeEnd(S, cuts, starts[i]),
                     classId |-> (base + i) % 3]]]

ClassDefFormat1(startGlyph, classes) ==
  [format |-> 1, startGlyph |-> startGlyph, classes |-> classes]

SampleCoverageArgs ==
  {[fn |-> "getCoverageIndex", set |-> {2, 3, 5}, table |-> t, glyph |-> g] :
     t \in {CoverageFormat1({2, 3, 5}), CoverageFormat2({2, 3, 5}, {})}, g \in {1, 3, 4}}

SampleClassDefArgs ==
  {[fn |-> "getGlyphClass", set |-> {2, 3, 5}, table |-> t, glyph |-> g] :
     t \in {ClassDefFormat1(2, <<1, 2, 0>>), ClassDefFormat2({2, 3, 5}, {}, 0)},
     g \in {1, 3, 4}}

Idle == call = NoCall

Init ==
  /\ tables \in {NoTable, createDefaultTable, ParsedTable}
  /\ call = NoCall
  /\ ret = Undef
  /\ arg = NoArg
  /\ res = NoRes

\* A call step: the accessor's outcome r becomes the table and the result.
Called(r, c) ==
  /\ WithinBounds(tables, r.tables)
  /\ tables' = r.tables
  /\ ret' = r.ret
  /\ call' = c
  /\ UNCHANGED <<arg, res>>

\* What the parameterless accessors return.
tableResult(t) == IF t.present THEN [kind |-> "table", val |-> 0] ELSE Undef

nameResult(n) == IF n = undefined THEN Undef ELSE [kind |-> "name", val |-> n]

GetTable ==
  /\ Idle
  /\ \E create \in BOOLEAN :
       Called([tables |-> getTable(tables, create),
               ret |-> tableResult(getTable(tables, create))],
              [NoCall EXCEPT !.op = "getTable", !.create = create])

GetScriptNames ==
  /\ Idle
  /\ Called([tables |-> getTable(tables, FALSE),
             ret |-> [kind |-> "names", val |-> getScriptNames(tables)]],
            [NoCall EXCEPT !.op = "getScriptNames"])

GetDefaultScriptName ==
  /\ Idle
  /\ Called([tables |-> getTable(tables, FALSE),
             ret |-> nameResult(getDefaultScriptName(tables))],
            [NoCall EXCEPT !.op = "getDefaultScriptName"])

GetScriptTable ==
  /\ Idle
  /\ \E script \in ScriptArgs, create \in BOOLEAN :
       Called(getScriptTable(tables, script, create),
              [NoCall EXCEPT !.op = "getScriptTable", !.script = script,
                             !.create = create])

GetLangSysTable ==
  /\ Idle
  /\ \E sl \in LangSysArgs, create \in BOOLEAN :
       Called(getLangSysTable(tables, sl[1], sl[2], create),
              [NoCall EXCEPT !.op = "getLangSysTable", !.script = sl[1],
                             !.language = sl[2], !.create = create])

GetFeatureTable ==
  /\ Idle
  /\ \E sl \in LangSysArgs, feature \in FeatureArgs, create \in BOOLEAN :
       Called(getFeatureTable(tables, sl[1], sl[2], feature, create),
              [NoCall EXCEPT !.op = "getFeatureTable", !.script = sl[1],
                             !.language = sl[2], !.feature = feature,
                             !.create = create])

GetLookupTables ==
  /\ Idle
  /\ \E sl \in LangSysArgs, feature \in FeatureArgs, lookupType \in LookupTypes,
        create \in BOOLEAN :
       Called(getLookupTables(tables, sl[1], sl[2], feature, lookupType, create),
              [NoCall EXCEPT !.op = "getLookupTables", !.script = sl[1],
                             !.language = sl[2], !.feature = feature,
                             !.lookupType = lookupType, !.create = create])

GetGlyphClass ==
  /\ Idle
  /\ \E a \in SampleClassDefArgs :
       /\ arg' = a
       /\ res' = getGlyphClass(a.table, a.glyph)
  /\ call' = [NoCall EXCEPT !.op = "getGlyphClass"]
  /\ UNCHANGED <<tables, ret>>

GetCoverageIndex ==
  /\ Idle
  /\ \E a \in SampleCoverageArgs :
       /\ arg' = a
       /\ res' = getCoverageIndex(a.table, a.glyph)
  /\ call' = [NoCall EXCEPT !.op = "getCoverageIndex"]
  /\ UNCHANGED <<tables, ret>>

ExpandCoverage ==
  /\ Idle
  /\ \E a \in SampleCoverageArgs :
       /\ arg' = [a EXCEPT !.fn = "expandCoverage"]
       /\ res' = [kind |-> "glyphs", val |-> expandCoverage(a.table)]
  /\ call' = [NoCall EXCEPT !.op = "expandCoverage"]
  /\ UNCHANGED <<tables, ret>>

\* The caller has taken the result of the call.
Return ==
  /\ ~Idle
  /\ call' = NoCall
  /\ ret' = Undef
  /\ arg' = NoArg
  /\ res' = NoRes
  /\ UNCHANGED tables

Next ==
  \/ GetTable
  \/ GetScriptNames
  \/ GetDefaultScriptName
  \/ GetScriptTable
  \/ GetLangSysTable
  \/ GetFeatureTable
  \/ GetLookupTables
  \/ GetGlyphClass
  \/ GetCoverageIndex
  \/ ExpandCoverage
  \/ Return

Spec == Init /\ [][Next]_vars

-----------------------------------------------------------------------------
(* The searches on their own: the input is drawn at the start and the      *)
(* search applied to it.                                                    *)

Quiet == tables = NoTable /\ call = NoCall /\ ret = Undef

InitSearch ==
  /\ Quiet
  /\ \/ arg \in {[fn |-> "searchTag", arr |-> TagRecords(S), key |-> t] :
                   S \in SUBSET Tags, t \in Tags}
     \/ arg \in {[fn |-> "binSearch", arr |-> SortedSeq(S), key |-> v] :
                   S \in SUBSET Glyphs, v \in 0..(MaxGlyph + 1)}
  /\ res = NoRes

SearchTag ==
  /\ arg.fn = "searchTag"
  /\ res.kind = "none"
  /\ res' = Num(searchTag(arg.arr, arg.key))
  /\ UNCHANGED <<tables, call, ret, arg>>

BinSearch ==
  /\ arg.fn = "binSearch"
  /\ res.kind = "none"
  /\ res' = Num(binSearch(arg.arr, arg.key))
  /\ UNCHANGED <<tables, call, ret, arg>>

NextSearch == SearchTag \/ BinSearch

SpecSearch == InitSearch /\ [][NextSearch]_vars

(* getCoverageIndex and expandCoverage on the Coverage tables of a glyph set *)

\* The format-2 Coverage table with the ranges 2..4 and 10..10.
ExampleCoverage ==
  [format |-> 2,
   ranges |-> <<[start |-> 2, end |-> 4, index |-> 0],
                [start |-> 10, end |-> 10, index |-> 3]>>]

InitCoverage ==
  /\ Quiet
  /\ \/ arg \in {[fn |-> f, set |-> S, table |-> CoverageFormat1(S), glyph |-> g] :
                   f \in {"getCoverageIndex", "expandCoverage"},
                   S \in SUBSET Glyphs, g \in 0..(MaxGlyph + 1)}
     \/ arg \in {[fn |-> f, set |-> S, table |-> CoverageFormat2(S, cuts), glyph |-> g] :
                   f \in {"getCoverageIndex", "expandCoverage"},
                   S \in SUBSET Glyphs, cuts \in SUBSET Glyphs, g \in 0..(MaxGlyph + 1)}
     \/ arg \in {[fn |-> f, set |-> {2, 3, 4, 10}, table |-> ExampleCoverage, glyph |-> g] :
                   f \in {"getCoverageIndex", "expandCoverage"}, g \in {1, 4, 7, 10, 11}}
  /\ res = NoRes

CoverageIndex ==
  /\ arg.fn = "getCoverageIndex"
  /\ res.kind = "none"
  /\ res' = getCoverageIndex(arg.table, arg.glyph)
  /\ UNCHANGED <<tables, call, ret, arg>>

CoverageExpand ==
  /\ arg.fn = "expandCoverage"
  /\ res.kind = "none"
  /\ res' = [kind |-> "glyphs", val |-> expandCoverage(arg.table)]
  /\ UNCHANGED <<tables, call, ret, arg>>

NextCoverage == CoverageIndex \/ CoverageExpand

SpecCoverage == InitCoverage /\ [][NextCoverage]_vars

(* getGlyphClass on ClassDef tables of both formats *)

InitClassDef ==
  /\ Quiet
  /\ \/ arg \in {[fn |-> "getGlyphClass", set |-> {},
                  table |-> ClassDefFormat1(startGlyph, classes), glyph |-> g] :
                   startGlyph \in Glyphs,
                   classes \in UNION {[1..n -> ClassIds] : n \in 0..MaxClasses},
                   g \in 0..(MaxGlyph + MaxClasses)}
     \/ arg \in {[fn |-> "getGlyphClass", set |-> S,
                  table |-> ClassDefFormat2(S, cuts, base), glyph |-> g] :
                   S \in SUBSET Glyphs, cuts \in SUBSET Glyphs, base \in ClassIds,
                   g \in 0..(MaxGlyph + 1)}
  /\ res = NoRes

GlyphClass ==
  /\ arg.fn = "getGlyphClass"
  /\ res.kind = "none"
  /\ res' = getGlyphClass(arg.table, arg.glyph)
  /\ UNCHANGED <<tables, call, ret, arg>>

NextClassDef == GlyphClass

SpecClassDef == InitClassDef /\ [][NextClassDef]_vars

\* getDefaultScriptName on script lists as a font file may hold them: the
\* records in any order.
ScriptTagSamples == {"DFLT", "latn", "arab", "cyrl"}

ScriptLists ==
  UNION {[1..n -> {[tag |-> t, script |-> NewScript] : t \in ScriptTagSamples}] :
           n \in 0..MaxScripts}

InitDefaultScript ==
  /\ tables \in {NoTable} \cup
                {[createDefaultTable EXCEPT !.scripts = l] : l \in ScriptLists}
  /\ call = NoCall
  /\ ret = Undef
  /\ arg = NoArg
  /\ res = NoRes

NextDefaultScript == GetDefaultScriptName \/ Return

SpecDefaultScript == InitDefaultScript /\ [][NextDefaultScript]_vars

-----------------------------------------------------------------------------
(* GDEF tables as a font file stores them.  An image is the content a     *)
(* buffer is built from: big-endian 16-bit words, every structure followed *)
(* by the structures its offsets point to, offsets counted in bytes from   *)
(* the start of the structure that holds them.                             *)

Lit(w) == [lit |-> TRUE, word |-> w, block |-> <<>>]

\* The slot of an offset field: 0 for an absent structure.
Ptr(Enc(_), o) ==
  IF o.present THEN [lit |-> FALSE, word |-> 0, block |-> Enc(o.value)] ELSE Lit(0)

RECURSIVE BlocksFrom(_, _)
BlocksFrom(slots, i) ==
  IF i > Len(slots) THEN <<>> ELSE slots[i].block \o BlocksFrom(slots, i + 1)

\* The words of a structure: its fields, then the structures pointed to.
Block(slots) ==
  [i \in 1..Len(slots) |->
     IF slots[i].lit THEN slots[i].word
     ELSE 2 * (Len(slots) + Len(BlocksFrom(SubSeq(slots, 1, i - 1), 1)))]
  \o BlocksFrom(slots, 1)

U16(v) == IF v < 0 THEN v + 65536 ELSE v

RECURSIVE Flatten(_)
Flatten(seqs) == IF Len(seqs) = 0 THEN <<>> ELSE Head(seqs) \o Flatten(Tail(seqs))

EncUShortList(l) == <<Len(l)>> \o l

EncCoverage(c) ==
  IF c.format = 1 THEN <<1>> \o EncUShortList(c.glyphs)
  ELSE <<2, Len(c.ranges)>>
       \o Flatten([i \in 1..Len(c.ranges) |->
                     <<c.ranges[i].start, c.ranges[i].end, c.ranges[i].index>>])

EncClassDef(c) ==
  IF c.format = 1 THEN <<1, c.startGlyph>> \o EncUShortList(c.classes)
  ELSE <<2, Len(c.ranges)>>
       \o Flatten([i \in 1..Len(c.ranges) |->
                     <<c.ranges[i].start, c.ranges[i].end, c.ranges[i].classId>>])

EncAttachList(a) ==
  Block(<<Ptr(EncCoverage, a.coverage), Lit(Len(a.attachPoints))>>
        \o [i \in 1..Len(a.attachPoints) |-> Ptr(EncUShortList, a.attachPoints[i])])

EncCaretValue(c) == <<c.format, U16(c.value)>>

EncLigGlyph(g) ==
  Block(<<Lit(Len(g))>> \o [i \in 1..Len(g) |-> Ptr(EncCaretValue, g[i])])

EncLigCaretList(l) ==
  Block(<<Ptr(EncCoverage, l.coverage), Lit(Len(l.ligGlyphs))>>
        \o [i \in 1..Len(l.ligGlyphs) |-> Ptr(EncLigGlyph, l.ligGlyphs[i])])

EncMarkGlyphSets(m) ==
  Block(<<Lit(1), Lit(Len(m))>> \o [i \in 1..Len(m) |-> Ptr(EncCoverage, m[i])])

EncGDEF(g) ==
  Block(<<Lit(g.major), Lit(g.minor), Ptr(EncClassDef, g.classDef),
          Ptr(EncAttachList, g.attachList), Ptr(EncLigCaretList, g.ligCaretList),
          Ptr(EncClassDef, g.markAttachClassDef)>>
        \o IF g.fifth THEN <<Ptr(EncMarkGlyphSets, g.markGlyphSets)>> ELSE <<>>)

Bytes(words) ==
  [i \in 1..(2 * Len(words)) |->
     IF i % 2 = 1 THEN words[(i + 1) \div 2] \div 256 ELSE words[i \div 2] % 256]

\* The buffer that holds the words at byte position start.
Buffer(words, start) == [i \in 1..start |-> 255] \o Bytes(words)

Optional(S) == {Absent} \cup {Present(x) : x \in S}

Versions == {<<1, 0>>, <<1, 1>>, <<1, 2>>, <<1, 3>>, <<1, 4>>, <<2, 0>>, <<0, 0>>}

Accepted(major, minor) == major = 1 /\ minor \in {0, 2, 3}

CaretFormats == 1..4

CaretImage(f) == [format |-> f, value |-> 10 * f - 20]

LigGlyphImages ==
  UNION {[1..n -> {Present(CaretImage(f)) : f \in CaretFormats}] : n \in 0..MaxCarets}

LigCaretListImages ==
  {[coverage |-> Present(ExampleCoverage), ligGlyphs |-> l] :
     l \in UNION {[1..n -> Optional(LigGlyphImages)] : n \in 0..2}}

SampleLigCaretList ==
  [coverage |-> Absent,
   ligGlyphs |-> <<Present(<<Present(CaretImage(1)), Present(CaretImage(3))>>)>>]

SampleAttachList ==
  [coverage |-> Present(CoverageFormat1({2, 3})),
   attachPoints |-> <<Present(<<1, 4>>), Present(<<>>)>>]

\* Headers of every version with every choice of present structures; a table
\* of a version that has no markGlyphSets may still store a fifth offset.
HeaderImages ==
  {g \in {[major |-> v[1], minor |-> v[2], fifth |-> fifth, classDef |-> cd,
           attachList |-> al, ligCaretList |-> lc, markAttachClassDef |-> ma,
           markGlyphSets |-> mg] :
            v \in Versions, fifth \in BOOLEAN,
            cd \in Optional({ClassDefFormat1(5, <<1, 2, 0>>)}),
            al \in Optional({SampleAttachList}),
            lc \in Optional({SampleLigCaretList}),
            ma \in Optional({ClassDefFormat2({2, 3, 5}, {}, 1)}),
            mg \in Optional({<<>>, <<Present(ExampleCoverage), Absent>>})} :
     /\ (Accepted(g.major, g.minor) /\ g.minor >= 2) => g.fifth
     /\ ~g.fifth => ~g.markGlyphSets.present}

\* Tables of an accepted version whose ligCaretList holds CaretValues of
\* every format, 4 included, at every place.
LigCaretTableImages ==
  {[major |-> 1, minor |-> minor, fifth |-> minor >= 2, classDef |-> Absent,
    attachList |-> Absent, ligCaretList |-> Present(lc), markAttachClassDef |-> ma,
    markGlyphSets |-> Absent] :
     minor \in {0, 2}, lc \in LigCaretListImages,
     ma \in Optional({ClassDefFormat1(5, <<1, 2, 0>>)})}

InitGDEF ==
  /\ Quiet
  /\ \/ arg \in {[fn |-> "parseGDEFTable", image |-> g, start |-> start,
                  data |-> Buffer(EncGDEF(g), start)] :
                   g \in HeaderImages \cup LigCaretTableImages, start \in {0, 2}}
     \/ arg \in {[fn |-> "caretValue", image |-> c, start |-> 0,
                  data |-> Buffer(EncCaretValue(c), 0)] :
                   c \in {[format |-> f, value |-> v] :
                            f \in 0..4, v \in {-32768, -2, 0, 7, 32767}}}
  /\ res = NoRes

ParseGDEFTable ==
  /\ arg.fn = "parseGDEFTable"
  /\ res.kind = "none"
  /\ res' = [kind |-> "gdef", val |-> parseGDEFTable(arg.data, arg.start)]
  /\ UNCHANGED <<tables, call, ret, arg>>

CaretValue ==
  /\ arg.fn = "caretValue"
  /\ res.kind = "none"
  /\ res' = [kind |-> "caretValue", val |-> caretValue(arg.data, arg.start, 0)]
  /\ UNCHANGED <<tables, call, ret, arg>>

NextGDEF == ParseGDEFTable \/ CaretValue

SpecGDEF == InitGDEF /\ [][NextGDEF]_vars


-----------------------------------------------------------------------------
(* Properties of the layout table *)

\* Non-decreasing and strictly ascending order by tag.
SortedByTag(arr) == \A i \in 1..(Len(arr) - 1) : ~StrLess(arr[i + 1].tag, arr[i].tag)

StrictlyAscending(arr) == \A i \in 1..(Len(arr) - 1) : StrLess(arr[i].tag, arr[i + 1].tag)

IsPrefix(a, b) == Len(a) <= Len(b) /\ SubSeq(b, 1, Len(a)) = a

TagsOf(arr) == [i \in 1..Len(arr) |-> arr[i].tag]

\* arr without the element at position p (0-based).
Without(arr, p) == SubSeq(arr, 1, p) \o SubSeq(arr, p + 2, Len(arr))

DefaultSlot == "<defaultLangSys>"

\* Every featureIndexes list of the table, with the tag of its script and
\* the tag of its langSysRecord (DefaultSlot for defaultLangSys).
IndexLists(t) ==
  {<<t.scripts[s].tag, DefaultSlot, t.scripts[s].script.defaultLangSys.featureIndexes>> :
     s \in 1..Len(t.scripts)}
  \cup UNION {{<<t.scripts[s].tag, t.scripts[s].script.langSysRecords[l].tag,
                 t.scripts[s].script.langSysRecords[l].langSys.featureIndexes>> :
                 l \in 1..Len(t.scripts[s].script.langSysRecords)} :
                s \in 1..Len(t.scripts)}

ValidIndexes(list, arr) == \A i \in 1..Len(list) : list[i] \in 0..(Len(arr) - 1)

\* C1: whatever calls have been made, with whatever arguments and create
\* flag, and whether they returned or threw, the features array is sorted
\* non-decreasing by tag.
C1_FeaturesSorted == SortedByTag(tables.features)

\* A getLookupTables call has just thrown the ordering assertion on a table
\* whose two features were created by this engine.
C1_Witness ==
  /\ call.op = "getLookupTables"
  /\ ret.kind = "error"
  /\ TagsOf(tables.features) = <<"aalt", "liga">>
  /\ tables.lookups = <<>>

\* C2: every featureIndexes entry is an index into features, every
\* lookupListIndexes entry is an index into lookups, and both arrays are
\* append-only: a record stays at its index with its tag, and a feature's
\* lookupListIndexes only grows at its end.
C2_IndexesValid ==
  /\ \A x \in IndexLists(tables) : ValidIndexes(x[3], tables.features)
  /\ \A f \in 1..Len(tables.features) :
       ValidIndexes(tables.features[f].feature.lookupListIndexes, tables.lookups)

C2_AppendOnly ==
  /\ IsPrefix(tables.lookups, tables'.lookups)
  /\ IsPrefix(TagsOf(tables.features), TagsOf(tables'.features))
  /\ \A f \in 1..Len(tables.features) :
       IsPrefix(tables.features[f].feature.lookupListIndexes,
                tables'.features[f].feature.lookupListIndexes)

C3_Referenced(ls, feature) ==
  \E i \in 1..Len(LangSysAt(ls.tables, ls.ret.val).featureIndexes) :
    At(ls.tables.features, LangSysAt(ls.tables, ls.ret.val).featureIndexes[i]).tag = feature

C3_Slot(ls) ==
  <<At(ls.tables.scripts, ls.ret.val[1]).tag,
    IF ls.ret.val[2] = -1 THEN DefaultSlot
    ELSE At(At(ls.tables.scripts, ls.ret.val[1]).script.langSysRecords, ls.ret.val[2]).tag>>

C3_Outcome(ls, feature) ==
  LET old == tables.features
      n == Len(old)
  IN ~C3_Referenced(ls, feature) =>
       IF n > 0 /\ StrLess(feature, old[n].tag)
       THEN /\ ret'.kind = "error"
            /\ tables'.features = old
            /\ \A x \in IndexLists(tables) : x \in IndexLists(tables')
            /\ \A x \in IndexLists(tables') : x \in IndexLists(tables) \/ x[3] = <<>>
       ELSE /\ ret'.kind = "feature"
            /\ ret'.val = n
            /\ tables'.features =
                 Append(old, [tag |-> feature,
                              feature |-> [params |-> 0, lookupListIndexes |-> <<>>]])
            /\ \A x \in IndexLists(ls.tables) :
                 IF <<x[1], x[2]>> = C3_Slot(ls)
                 THEN <<x[1], x[2], Append(x[3], n)>> \in IndexLists(tables')
                 ELSE x \in IndexLists(tables')
            /\ Cardinality(IndexLists(tables')) = Cardinality(IndexLists(ls.tables))

C3_Step ==
  (call'.op = "getFeatureTable" /\ call'.create) =>
    C3_Outcome(getLangSysTable(tables, call'.script, call'.language, TRUE), call'.feature)

C3_OrderingAssertion == [][C3_Step]_vars

\* A getFeatureTable call with create set has just thrown.
C3_Witness ==
  /\ call.op = "getFeatureTable"
  /\ call.create
  /\ ret.kind = "error"
  /\ Len(tables.features) > 0

\* C4: the scripts array and every langSysRecords array are strictly
\* ascending by tag; a step that creates a record inserts it at the
\* insertion point searchTag gives for its tag and removes no record.
C4_Sorted ==
  /\ StrictlyAscending(tables.scripts)
  /\ \A s \in 1..Len(tables.scripts) :
       StrictlyAscending(tables.scripts[s].script.langSysRecords)

\* Array b is array a, or a with one record with a new tag inserted at its
\* insertion point.
C4_Inserted(a, b) ==
  \/ TagsOf(b) = TagsOf(a)
  \/ \E p \in 0..Len(a) :
       /\ TagsOf(Without(b, p)) = TagsOf(a)
       /\ searchTag(a, At(b, p).tag) = -1 - p

C4_InsertStep ==
  /\ C4_Inserted(tables.scripts, tables'.scripts)
  /\ \A s \in 1..Len(tables.scripts) : \E s2 \in 1..Len(tables'.scripts) :
       /\ tables'.scripts[s2].tag = tables.scripts[s].tag
       /\ C4_Inserted(tables.scripts[s].script.langSysRecords,
                      tables'.scripts[s2].script.langSysRecords)

C4_SortedInsertion == []C4_Sorted /\ [][C4_InsertStep]_vars

\* A getFeatureTable call has resolved langSysRecord 'Dflt' at position 0,
\* before 'ENG ', in the script 'DFLT', itself before 'latn'.
C4_Witness ==
  /\ call.op = "getFeatureTable"
  /\ call.create
  /\ call.language = "Dflt"
  /\ TagsOf(tables.scripts) = <<"DFLT", "latn">>
  /\ TagsOf(tables.scripts[1].script.langSysRecords) = <<"Dflt", "ENG ">>

\* The language a call names, 'dflt' when the argument is left out.
LanguageOf(c) == IF c.language = undefined THEN "dflt" ELSE c.language

\* The script a call names exists in the table, or the call creates it.
ScriptResolves(t, c) ==
  \/ c.create
  \/ /\ t.present
     /\ \E s \in 1..Len(t.scripts) :
          t.scripts[s].tag = (IF c.script = undefined THEN "DFLT" ELSE c.script)

LowerCaseUnit(u) == IF u \in 65..90 THEN u + 32 ELSE u

EqualsIgnoreCase(a, b) ==
  [i \in 1..Len(CodeUnits(a)) |-> LowerCaseUnit(CodeUnits(a)[i])]
    = [i \in 1..Len(CodeUnits(b)) |-> LowerCaseUnit(CodeUnits(b)[i])]

\* The langSysRecords of the table: the tag of the script and of the record.
RecordSlots(t) == {<<x[1], x[2]>> : x \in {y \in IndexLists(t) : y[2] # DefaultSlot}}

\* C8 as stated: a getLangSysTable call whose language equals 'dflt' in any
\* letter case returns defaultLangSys whenever the script exists or is
\* created and adds no langSysRecord, and no langSysRecord has a tag that
\* equals 'dflt' in any letter case.
C8_AnyCaseStep ==
  (/\ call'.op = "getLangSysTable"
   /\ EqualsIgnoreCase(LanguageOf(call'), "dflt")) =>
     /\ ScriptResolves(tables, call') => ret'.kind = "langSys"
     /\ ret'.kind = "langSys" => ret'.val[2] = -1
     /\ RecordSlots(tables') = RecordSlots(tables)

C8_NoAnyCaseRecord == \A x \in RecordSlots(tables) : ~EqualsIgnoreCase(x[2], "dflt")

C8_CaseInsensitiveDefault == []C8_NoAnyCaseRecord /\ [][C8_AnyCaseStep]_vars

\* C8 amended: a getLangSysTable call whose language is exactly 'dflt' or
\* 'DFLT' returns defaultLangSys whenever the script exists or is created and
\* adds no langSysRecord, and no langSysRecord has the tag 'dflt' or 'DFLT'.
C8_ExactStep ==
  (/\ call'.op = "getLangSysTable"
   /\ LanguageOf(call') \in {"dflt", "DFLT"}) =>
     /\ ScriptResolves(tables, call') => ret'.kind = "langSys"
     /\ ret'.kind = "langSys" => ret'.val[2] = -1
     /\ RecordSlots(tables') = RecordSlots(tables)

C8_NoExactRecord == \A x \in RecordSlots(tables) : x[2] \notin {"dflt", "DFLT"}

C8_ExactDefault == []C8_NoExactRecord /\ [][C8_ExactStep]_vars

\* getLangSysTable called with 'DFLT' and create set has returned the
\* defaultLangSys of a script that has langSysRecords.
C8_Witness ==
  /\ call.op = "getLangSysTable"
  /\ call.language = "DFLT"
  /\ call.create
  /\ ret.kind = "langSys"
  /\ ret.val[2] = -1
  /\ At(tables.scripts, ret.val[1]).script.langSysRecords # <<>>

\* The entries of list that reference a lookup of the type, in list order.
MatchingLookups(list, lookups, lookupType) ==
  SelectSeq(list, LAMBDA i : lookups[i + 1].lookupType = lookupType)

\* What getLookupTables does once getFeatureTable has given ft.
C9_Outcome(ft, lookupType, create) ==
  IF ft.ret.kind = "feature"
  THEN LET f == ft.ret.val
           n == Len(ft.tables.lookups)
           found == MatchingLookups(ft.tables.features[f + 1].feature.lookupListIndexes,
                                    ft.tables.lookups, lookupType)
       IN /\ ret'.kind = "lookups"
          /\ IF found = <<>> /\ create
             THEN /\ ret'.val = <<n>>
                  /\ tables' =
                       [ft.tables EXCEPT
                          !.lookups = Append(@, [lookupType |-> lookupType, lookupFlag |-> 0,
                                                 subtables |-> <<>>,
                                                 markFilteringSet |-> undefined]),
                          !.features[f + 1].feature.lookupListIndexes = Append(@, n)]
             ELSE ret'.val = found /\ tables' = ft.tables
  ELSE ft.ret.kind = "undefined" =>
         ret'.kind = "lookups" /\ ret'.val = <<>> /\ tables' = ft.tables

C9_Step ==
  call'.op = "getLookupTables" =>
    C9_Outcome(getFeatureTable(tables, call'.script, call'.language, call'.feature,
                               call'.create),
               call'.lookupType, call'.create)

IsQuery(c) ==
  \/ c.op \in {"getScriptNames", "getDefaultScriptName", "getGlyphClass",
               "getCoverageIndex", "expandCoverage"}
  \/ /\ c.op \in {"getTable", "getScriptTable", "getLangSysTable", "getFeatureTable",
                  "getLookupTables"}
     /\ ~c.create

\* C10: a call of getScriptNames, getDefaultScriptName, getGlyphClass,
\* getCoverageIndex or expandCoverage, and a call of getTable,
\* getScriptTable, getLangSysTable, getFeatureTable or getLookupTables without
\* create, leaves font.tables as it was.
C10_QueriesPure == [][IsQuery(call') => tables' = tables]_vars

\* getLookupTables without create has found no table to look in and has
\* returned the empty list.
C10_Witness ==
  /\ call.op = "getLookupTables"
  /\ ~call.create
  /\ ret.kind = "lookups"
  /\ ret.val = <<>>
  /\ ~tables.present

\* The script a call names, 'DFLT' when the argument is left out.
ScriptOf(c) == IF c.script = undefined THEN "DFLT" ELSE c.script

\* The featureIndexes lists of the LangSys a call names: none when the
\* table, the script or the language is missing.
NamedIndexLists(t, c) ==
  {x[3] : x \in {y \in IndexLists(t) :
                   /\ y[1] = ScriptOf(c)
                   /\ y[2] = (IF LanguageOf(c) \in {"dflt", "DFLT"} THEN DefaultSlot
                              ELSE LanguageOf(c))}}

\* The feature records of the feature a call names, as the named LangSys
\* references them.
NamedFeatures(t, c) ==
  {t.features[l[i] + 1].feature : <<l, i>> \in
     {p \in NamedIndexLists(t, c) \X (1..Len(t.features) + 1) :
        /\ p[2] <= Len(p[1])
        /\ t.features[p[1][p[2]] + 1].tag = c.feature}}

C11_Absent(t, c) ==
  CASE c.op = "getScriptTable" ->
         ~(t.present /\ \E s \in 1..Len(t.scripts) : t.scripts[s].tag = ScriptOf(c))
    [] c.op = "getLangSysTable" -> NamedIndexLists(t, c) = {}
    [] c.op = "getFeatureTable" -> NamedFeatures(t, c) = {}
    [] c.op = "getLookupTables" ->
         \A f \in NamedFeatures(t, c) :
           \A j \in 1..Len(f.lookupListIndexes) :
             t.lookups[f.lookupListIndexes[j] + 1].lookupType # c.lookupType
    [] c.op = "getScriptNames" -> ~t.present

C11_Sentinel(c) == IF c.op = "getLookupTables" THEN [kind |-> "lookups", val |-> <<>>]
                   ELSE IF c.op = "getScriptNames" THEN [kind |-> "names", val |-> <<>>]
                   ELSE Undef

C11_Step ==
  (/\ call'.op \in {"getScriptTable", "getLangSysTable", "getFeatureTable",
                    "getLookupTables", "getScriptNames"}
   /\ ~call'.create) =>
     /\ ret'.kind # "error"
     /\ C11_Absent(tables, call') => ret' = C11_Sentinel(call')

\* C11: without create, getScriptTable, getLangSysTable and getFeatureTable
\* return undefined when the script, language or feature is not in the
\* table, getLookupTables returns the empty list, getScriptNames returns the
\* empty list when there is no table, and none of these calls throws.
C11_AbsenceIsSentinel == [][C11_Step]_vars

\* getFeatureTable without create has found the LangSys but no reference to
\* the feature, whose tag is below the last feature tag, and has returned
\* undefined.
C11_Witness ==
  /\ call.op = "getFeatureTable"
  /\ ~call.create
  /\ ret.kind = "undefined"
  /\ NamedIndexLists(tables, call) # {}
  /\ tables.features # <<>>
  /\ StrLess(call.feature, tables.features[Len(tables.features)].tag)

-----------------------------------------------------------------------------
(* Properties of the searches and of the Coverage and ClassDef queries *)

AscendingNumbers(arr) == \A i \in 1..(Len(arr) - 1) : arr[i] < arr[i + 1]

\* C5: on an array strictly ascending by tag, searchTag returns the index of
\* the record with the tag when there is one, and otherwise a negative r such
\* that the array with a record of that tag inserted at -r - 1 is strictly
\* ascending; binSearch does the same on a strictly ascending array of
\* numbers.
C5_SearchContract ==
  res.kind = "number" =>
    LET r == res.val
    IN IF arg.fn = "searchTag"
       THEN IF \E i \in 1..Len(arg.arr) : arg.arr[i].tag = arg.key
            THEN r \in 0..(Len(arg.arr) - 1) /\ At(arg.arr, r).tag = arg.key
            ELSE /\ r < 0
                 /\ -r - 1 \in 0..Len(arg.arr)
                 /\ StrictlyAscending(SubSeq(arg.arr, 1, -r - 1) \o <<[tag |-> arg.key]>>
                                      \o SubSeq(arg.arr, -r, Len(arg.arr)))
       ELSE IF \E i \in 1..Len(arg.arr) : arg.arr[i] = arg.key
            THEN r \in 0..(Len(arg.arr) - 1) /\ At(arg.arr, r) = arg.key
            ELSE /\ r < 0
                 /\ -r - 1 \in 0..Len(arg.arr)
                 /\ AscendingNumbers(SubSeq(arg.arr, 1, -r - 1) \o <<arg.key>>
                                     \o SubSeq(arg.arr, -r, Len(arg.arr)))

\* searchTag has reported an absent tag whose insertion point lies between
\* the first and the last of four records.
C5_Witness ==
  /\ arg.fn = "searchTag"
  /\ res.kind = "number"
  /\ Len(arg.arr) = 4
  /\ res.val = -3

\* C6: on the format-1 and on every format-2 Coverage table of a glyph set
\* S, getCoverageIndex returns the position of the glyph in S when the glyph
\* is in S and -1 when it is not.
C6_CoverageIndex ==
  (arg.fn = "getCoverageIndex" /\ res.kind # "none") =>
    /\ res.kind = "number"
    /\ res.val = IF arg.glyph \in arg.set THEN PositionIn(arg.set, arg.glyph) ELSE -1

\* A glyph in the gap between two ranges of a format-2 table has got -1.
C6_Witness ==
  /\ arg.fn = "getCoverageIndex"
  /\ arg.table.format = 2
  /\ res.kind = "number"
  /\ res.val = -1
  /\ \E a \in arg.set, b \in arg.set : a < arg.glyph /\ arg.glyph < b

\* The class a ClassDef table stores for a glyph, 0 for a glyph it does not
\* cover.
C7_StoredClass(table, g) ==
  IF table.format = 1
  THEN IF g \in table.startGlyph..(table.startGlyph + Len(table.classes) - 1)
       THEN table.classes[g - table.startGlyph + 1]
       ELSE 0
  ELSE IF \E i \in 1..Len(table.ranges) : g \in table.ranges[i].start..table.ranges[i].end
       THEN LET i == CHOOSE j \in 1..Len(table.ranges) :
                       g \in table.ranges[j].start..table.ranges[j].end
            IN table.ranges[i].classId
       ELSE 0

HasScript(t, tag) == t.present /\ \E s \in 1..Len(t.scripts) : t.scripts[s].tag = tag

\* C12: getDefaultScriptName returns 'DFLT' when a script record tagged
\* 'DFLT' exists, wherever it stands and whether or not 'latn' exists,
\* 'latn' when 'latn' exists and 'DFLT' does not, and undefined when neither
\* exists or there is no table.
C12_DefaultScriptName ==
  call.op = "getDefaultScriptName" =>
    IF HasScript(tables, "DFLT") THEN ret.kind = "name" /\ ret.val = "DFLT"
    ELSE IF HasScript(tables, "latn") THEN ret.kind = "name" /\ ret.val = "latn"
    ELSE ret.kind = "undefined"

\* 'DFLT' has been returned for a list that holds 'latn' before 'DFLT'.
C12_Witness ==
  /\ call.op = "getDefaultScriptName"
  /\ ret.kind = "name"
  /\ ret.val = "DFLT"
  /\ tables.scripts[1].tag = "latn"


\* C13: on a Coverage table that stores a glyph set in ascending order,
\* expandCoverage returns the glyphs of the set strictly ascending, each
\* once, getCoverageIndex of the glyph at position i of the result is i, and
\* the ranges 2..4 and 10..10 expand to 2, 3, 4, 10.
C13_ExpandCoverage ==
  (arg.fn = "expandCoverage" /\ res.kind = "glyphs") =>
    /\ AscendingNumbers(res.val)
    /\ {res.val[i] : i \in 1..Len(res.val)} = arg.set
    /\ \A i \in 1..Len(res.val) :
         getCoverageIndex(arg.table, res.val[i]) = Num(i - 1)
    /\ (arg.table.format = 2 /\ arg.table.ranges = ExampleCoverage.ranges) =>
         res.val = <<2, 3, 4, 10>>

\* Two ranges with a gap between them have been expanded to four glyphs.
C13_Witness ==
  /\ arg.fn = "expandCoverage"
  /\ arg.table.format = 2
  /\ Len(arg.table.ranges) = 2
  /\ res.kind = "glyphs"
  /\ Len(res.val) = 4
  /\ res.val[4] > res.val[3] + 1


\* The image holds a CaretValue of a format other than 1, 2 and 3.
HasBadCaret(g) ==
  /\ g.ligCaretList.present
  /\ \E i \in 1..Len(g.ligCaretList.value.ligGlyphs) :
       /\ g.ligCaretList.value.ligGlyphs[i].present
       /\ \E j \in 1..Len(g.ligCaretList.value.ligGlyphs[i].value) :
            g.ligCaretList.value.ligGlyphs[i].value[j].value.format \notin {1, 2, 3}

SameLigCaretList(parsed, stored) ==
  /\ parsed.present = stored.present
  /\ stored.present =>
       /\ parsed.value.coverage = stored.value.coverage
       /\ Len(parsed.value.ligGlyphs) = Len(stored.value.ligGlyphs)

C14_Fields(gdef, image) ==
  /\ gdef.val.classDef = image.classDef
  /\ gdef.val.attachList = image.attachList
  /\ SameLigCaretList(gdef.val.ligCaretList, image.ligCaretList)
  /\ gdef.val.markAttachClassDef = image.markAttachClassDef
  /\ IF image.minor >= 2
     THEN /\ "markGlyphSets" \in DOMAIN gdef.val
          /\ gdef.val.markGlyphSets = image.markGlyphSets
          /\ gdef.rel = 14
     ELSE /\ "markGlyphSets" \notin DOMAIN gdef.val
          /\ gdef.rel = 12

\* C14: for versions 1.0, 1.2 and 1.3 parseGDEFTable gives classDef,
\* attachList, ligCaretList and markAttachClassDef from the first four
\* offsets in that order; it reads a fifth offset into markGlyphSets for 1.2
\* and 1.3 only, and for 1.0 the result has no markGlyphSets and the cursor
\* stops before the fifth offset.  An offset 0 gives an absent field, an
\* offset to an empty list gives the empty list.
C14_PointerFields ==
  (/\ arg.fn = "parseGDEFTable"
   /\ res.kind = "gdef"
   /\ Accepted(arg.image.major, arg.image.minor)
   /\ ~HasBadCaret(arg.image)) =>
     res.val.ok /\ C14_Fields(res.val, arg.image)

\* A table of version 1.3 with five offsets 0 has been parsed.
C14_Witness ==
  /\ arg.fn = "parseGDEFTable"
  /\ res.kind = "gdef"
  /\ res.val.ok
  /\ arg.image.minor = 3
  /\ \A i \in 5..14 : arg.data[arg.start + i] = 0
  /\ res.val.val.markGlyphSets = Absent
  /\ res.val.val.classDef = Absent


\* C15: parseGDEFTable fails on a version other than 1.0, 1.2 and 1.3 with
\* the cursor just after the version, before any offset, and fails when a
\* CaretValue anywhere under ligCaretList has a format other than 1, 2 and
\* 3; a failed call gives the error and no table.
C15_FailFast ==
  (arg.fn = "parseGDEFTable" /\ res.kind = "gdef") =>
    /\ ~Accepted(arg.image.major, arg.image.minor) =>
         /\ ~res.val.ok
         /\ res.val.val = "Unsupported GDEF table version."
         /\ res.val.rel = arg.start + 4
    /\ (Accepted(arg.image.major, arg.image.minor) /\ HasBadCaret(arg.image)) =>
         /\ ~res.val.ok
         /\ res.val.val = "Unsupported CaretValue table version."

\* The parse has failed on a table whose only CaretValue of format 4 is the
\* last one of the second ligGlyph.
C15_Witness ==
  /\ arg.fn = "parseGDEFTable"
  /\ res.kind = "gdef"
  /\ ~res.val.ok
  /\ arg.image.minor = 2
  /\ arg.image.markAttachClassDef.present
  /\ Len(arg.image.ligCaretList.value.ligGlyphs) = 2
  /\ \A i \in 1..2 :
       /\ arg.image.ligCaretList.value.ligGlyphs[i].present
       /\ Len(arg.image.ligCaretList.value.ligGlyphs[i].value) = 2
       /\ \A j \in 1..2 :
            (arg.image.ligCaretList.value.ligGlyphs[i].value[j].value.format = 4)
              <=> (i = 2 /\ j = 2)


\* C16: a decoded CaretValue is a record with the single field coordinate
\* for format 1 and for format 3, and with the single field pointIndex for
\* format 2, holding the 16-bit signed value stored after the format.
C16_CaretValueRecord ==
  (arg.fn = "caretValue" /\ res.kind = "caretValue" /\ arg.image.format \in {1, 2, 3}) =>
    /\ res.val.ok
    /\ DOMAIN res.val.val = (IF arg.image.format = 2 THEN {"pointIndex"}
                             ELSE {"coordinate"})
    /\ \A name \in DOMAIN res.val.val : res.val.val[name] = arg.image.value


\* The ClassDef table holds a class for the glyph.
InClassDef(table, g) ==
  IF table.format = 1
  THEN g \in table.startGlyph..(table.startGlyph + Len(table.classes) - 1)
  ELSE \E i \in 1..Len(table.ranges) : g \in table.ranges[i].start..table.ranges[i].end

\* C17: getGlyphClass returns -1 for a glyph that is not found in the class
\* definition table.
C17_NotFoundIsMinusOne ==
  (/\ arg.fn = "getGlyphClass"
   /\ res.kind # "none"
   /\ ~InClassDef(arg.table, arg.glyph)) =>
     res.kind = "number" /\ res.val = -1


\* The call c made again on table t, with the create flag given.
Again(t, c, create) ==
  CASE c.op = "getScriptTable" -> getScriptTable(t, c.script, create)
    [] c.op = "getLangSysTable" -> getLangSysTable(t, c.script, c.language, create)
    [] c.op = "getFeatureTable" ->
         getFeatureTable(t, c.script, c.language, c.feature, create)
    [] c.op = "getLookupTables" ->
         getLookupTables(t, c.script, c.language, c.feature, c.lookupType, create)

C18_Same(again) ==
  /\ again.tables = tables'
  /\ again.ret.kind = ret'.kind
  /\ again.ret.val = ret'.val

C18_Step ==
  (/\ call'.op \in {"getScriptTable", "getLangSysTable", "getFeatureTable",
                    "getLookupTables"}
   /\ call'.create
   /\ ret'.kind # "error") =>
     \A create \in BOOLEAN : C18_Same(Again(tables', call', create))

\* C18: after a getScriptTable, getLangSysTable, getFeatureTable or
\* getLookupTables call with create that did not throw, the same call made
\* again, with or without create, returns the same script, LangSys, feature
\* or lookups and leaves the table as it is.
C18_CreateIdempotent == [][C18_Step]_vars

\* getLookupTables with create has just appended a lookup and returned it.
C18_Witness ==
  /\ call.op = "getLookupTables"
  /\ call.create
  /\ ret.kind = "lookups"
  /\ ret.val = <<Len(tables.lookups) - 1>>
  /\ tables.lookups[Len(tables.lookups)].subtables = <<>>
  /\ Len(tables.features) > 1


\* C19: a getFeatureTable or getLookupTables call with create that fails the
\* ordering assertion leaves the layout table as it was before the call: no
\* table installed, no script record and no langSysRecord added.
C19_FailureLeavesTable ==
  [][(/\ call'.op \in {"getFeatureTable", "getLookupTables"}
      /\ call'.create
      /\ ret'.kind = "error") => tables' = tables]_vars

=============================================================================
